---- MODULE Spec2Model ----
(***************************************************************************)
(* cocors: semantic versions driven by conventional commits.               *)
(*                                                                         *)
(* The module models coco::Version (parse, Display, bump, rollback, Ord),  *)
(* Commit::bump and Commit::lint.  Strings are sequences of one-character  *)
(* strings; Option<T> is a sequence of length 0 (None) or 1 (Some).        *)
(*                                                                         *)
(* u64::MAX is 2^64-1, beyond TLC's integers: the fields keep both edges   *)
(* of the type (0 and the top value U64_MAX) at a reduced width.  The      *)
(* increments of bump are explored where the result fits (the guard        *)
(* Fits); the decrement of rollback at 0 is modelled with both outcomes a  *)
(* build can produce.                                                      *)
(***************************************************************************)
EXTENDS Integers, Sequences, FiniteSets, TLC

VARIABLES
    version,          \* Option<Version>: the Version the caller owns
    status,           \* "ok", or "panicked" once an operation has aborted
    last,             \* the last operation, its arguments and the Version before it
    overflow_checks,  \* build profile: arithmetic overflow panics (TRUE) or wraps
    lhs,              \* self of Version::cmp
    rhs,              \* other of Version::cmp
    ordering,         \* Option<Ordering>: the result of the last cmp
    lint_result       \* Option<LintResult>: what the last Commit::lint returned

vars == <<version, status, last, overflow_checks, lhs, rhs, ordering, lint_result>>

----------------------------------------------------------------------------
(* Bounds *)

\* stand-in for u64::MAX
U64_MAX == 2

----------------------------------------------------------------------------
(* Option and strings *)

None == <<>>
Some(x) == <<x>>
IsSome(o) == Len(o) = 1
IsNone(o) == Len(o) = 0
Unwrap(o) == o[1]

Digits == {"0", "1", "2", "3", "4", "5", "6", "7", "8", "9"}
Letters == {"a", "b", "c", "e", "h", "l", "m", "p", "r", "t", "v", "x"}

\* the byte of a character (strings order by their bytes)
Byte(c) ==
    CASE c = "+" -> 43 [] c = "-" -> 45 [] c = "." -> 46
      [] c = "0" -> 48 [] c = "1" -> 49 [] c = "2" -> 50 [] c = "3" -> 51
      [] c = "4" -> 52 [] c = "5" -> 53 [] c = "6" -> 54 [] c = "7" -> 55
      [] c = "8" -> 56 [] c = "9" -> 57
      [] c = "a" -> 97 [] c = "b" -> 98 [] c = "c" -> 99 [] c = "e" -> 101
      [] c = "h" -> 104 [] c = "l" -> 108 [] c = "m" -> 109 [] c = "p" -> 112
      [] c = "r" -> 114 [] c = "t" -> 116 [] c = "v" -> 118 [] c = "x" -> 120

\* a decimal digit outside ASCII (ARABIC-INDIC DIGIT THREE): \d matches it,
\* str::parse::<u64> does not accept it
UnicodeDigits == {"U+0663"}

\* \d of the version pattern
IsDigit(c) == c \in Digits \cup UnicodeDigits
\* [0-9A-Za-z-\.] of the version pattern
IsIdentChar(c) == c \in Digits \cup Letters \cup {"-", "."}

Less == "Less"
Equal == "Equal"
Greater == "Greater"

\* Ordering::reverse
Reverse(o) == CASE o = Less -> Greater [] o = Greater -> Less [] OTHER -> Equal

\* u64::cmp
NumCmp(m, n) == IF m < n THEN Less ELSE IF m > n THEN Greater ELSE Equal

\* str::cmp: lexicographic by bytes, a proper prefix is Less
RECURSIVE StrCmp(_, _)
StrCmp(s, t) ==
    IF s = <<>> /\ t = <<>> THEN Equal
    ELSE IF s = <<>> THEN Less
    ELSE IF t = <<>> THEN Greater
    ELSE IF Byte(Head(s)) # Byte(Head(t)) THEN NumCmp(Byte(Head(s)), Byte(Head(t)))
    ELSE StrCmp(Tail(s), Tail(t))

\* Option<String>::cmp (derived): None is less than every Some
OptionCmp(p, q) ==
    IF IsNone(p) /\ IsNone(q) THEN Equal
    ELSE IF IsNone(p) THEN Less
    ELSE IF IsNone(q) THEN Greater
    ELSE StrCmp(Unwrap(p), Unwrap(q))

\* str::split('.'): the pieces between the dots (an empty string gives one empty piece)
RECURSIVE SplitFrom(_, _)
SplitFrom(s, piece) ==
    IF s = <<>> THEN <<piece>>
    ELSE IF Head(s) = "." THEN <<piece>> \o SplitFrom(Tail(s), <<>>)
    ELSE SplitFrom(Tail(s), Append(piece, Head(s)))

Split(s) == SplitFrom(s, <<>>)

----------------------------------------------------------------------------
(* Version *)

Version(ma, mi, pa, pre, meta) ==
    [major |-> ma, minor |-> mi, patch |-> pa, pre_release |-> pre, metadata |-> meta]

\* u64 to decimal text, as "{}" formats it
RECURSIVE ToDigits(_)
ToDigits(n) ==
    LET d == CHOOSE c \in Digits : Byte(c) - 48 = n % 10
    IN IF n < 10 THEN <<d>> ELSE Append(ToDigits(n \div 10), d)

\* impl fmt::Display for Version
Display(v) ==
    ToDigits(v.major) \o <<".">> \o ToDigits(v.minor) \o <<".">> \o ToDigits(v.patch)
      \o (IF IsSome(v.pre_release) THEN <<"-">> \o Unwrap(v.pre_release) ELSE <<>>)
      \o (IF IsSome(v.metadata) THEN <<"+">> \o Unwrap(v.metadata) ELSE <<>>)

\* str::parse::<u64>: Err (None) on a character that is not an ASCII digit and
\* when the value does not fit
RECURSIVE ParseU64From(_, _)
ParseU64From(s, acc) ==
    IF s = <<>> THEN Some(acc)
    ELSE IF Head(s) \notin Digits THEN None
    ELSE LET n == acc * 10 + (Byte(Head(s)) - 48)
         IN IF n > U64_MAX THEN None ELSE ParseU64From(Tail(s), n)

\* a failed conversion replaced by the largest value
ParseU64_Saturating(s) ==
    LET r == ParseU64From(s, 0) IN IF IsNone(r) THEN Some(U64_MAX) ELSE r

ParseU64(s) == ParseU64From(s, 0)

\* the index after the longest run of \d that starts at i (\d+ is greedy)
RECURSIVE DigitRunEnd(_, _)
DigitRunEnd(text, i) ==
    IF i <= Len(text) /\ IsDigit(text[i]) THEN DigitRunEnd(text, i + 1) ELSE i

\* the index after the longest run of [0-9A-Za-z-\.] that starts at i
RECURSIVE IdentRunEnd(_, _)
IdentRunEnd(text, i) ==
    IF i <= Len(text) /\ IsIdentChar(text[i]) THEN IdentRunEnd(text, i + 1) ELSE i

\* text[i..j-1]
Slice(text, i, j) == SubSeq(text, i, j - 1)

\* the version pattern tried at position i: the captures, or None
MatchAt(text, i) ==
    LET e1 == DigitRunEnd(text, i)
        e2 == DigitRunEnd(text, e1 + 1)
        e3 == DigitRunEnd(text, e2 + 1)
        dot(j) == j <= Len(text) /\ text[j] = "."
        e4 == IF e3 <= Len(text) /\ text[e3] = "-"
                THEN IdentRunEnd(text, e3 + 1) ELSE e3
        has4 == e4 > e3 + 1
        s5 == IF has4 THEN e4 ELSE e3
        e5 == IF s5 <= Len(text) /\ text[s5] = "+"
                THEN IdentRunEnd(text, s5 + 1) ELSE s5
        has5 == e5 > s5 + 1
    IN IF e1 > i /\ dot(e1) /\ e2 > e1 + 1 /\ dot(e2) /\ e3 > e2 + 1
       THEN Some([g1 |-> Slice(text, i, e1),
                  g2 |-> Slice(text, e1 + 1, e2),
                  g3 |-> Slice(text, e2 + 1, e3),
                  g4 |-> IF has4 THEN Some(Slice(text, e3, e4)) ELSE None,
                  g5 |-> IF has5 THEN Some(Slice(text, s5, e5)) ELSE None])
       ELSE None

\* the pattern tried at the start of the text only
Captures_Anchored(text) == IF text = <<>> THEN None ELSE MatchAt(text, 1)

\* Regex::captures: the leftmost match
Captures(text) ==
    LET starts == {i \in 1..Len(text) : IsSome(MatchAt(text, i))}
    IN IF starts = {} THEN None
       ELSE MatchAt(text, CHOOSE i \in starts : \A j \in starts : i <= j)

\* the separator left in place
StripSeparator_Kept(g) == g

\* String::remove(0) on a captured optional group
StripSeparator(g) == IF IsSome(g) THEN Some(Tail(Unwrap(g))) ELSE None

\* Version::parse
Parse(text) ==
    LET caps_option == Captures(text)
    IN IF IsNone(caps_option) THEN None
       ELSE LET caps == Unwrap(caps_option)
                major == ParseU64(caps.g1)
                minor == ParseU64(caps.g2)
                patch == ParseU64(caps.g3)
            IN IF IsNone(major) \/ IsNone(minor) \/ IsNone(patch) THEN None
               ELSE Some(Version(Unwrap(major), Unwrap(minor), Unwrap(patch),
                                 StripSeparator(caps.g4), StripSeparator(caps.g5)))

----------------------------------------------------------------------------
(* Commits and the operations that move a Version *)

CommitTypes == {"Fix", "Feature", "BreakingChange", "Build", "Chore", "Ci", "Docs",
                "Style", "Refactor", "Performance", "Test", "Other"}

\* the two fields of a commit that bump and rollback read
Commits == [breaking : BOOLEAN, commit_type : CommitTypes]

\* the numeric field a commit moves: "major", "minor", "patch", or "none"
Target(c) ==
    IF c.breaking THEN "major"
    ELSE CASE c.commit_type = "Fix" -> "patch"
           [] c.commit_type = "Feature" -> "minor"
           [] c.commit_type = "BreakingChange" -> "major"
           [] OTHER -> "none"

Field(v, f) == CASE f = "major" -> v.major [] f = "minor" -> v.minor [] f = "patch" -> v.patch

\* the += 1 of bump stays within u64
Fits(v, c) == IF Target(c) = "none" THEN TRUE ELSE Field(v, Target(c)) < U64_MAX

\* the -= 1 of rollback goes below zero
Underflows(v, c) == IF Target(c) = "none" THEN FALSE ELSE Field(v, Target(c)) = 0

\* u64 subtraction of one without overflow checks
WrappingDec(n) == IF n = 0 THEN U64_MAX ELSE n - 1

\* Version::reset
reset(v) == Version(0, 0, 0, None, None)

\* Feature moves the wrong pair of fields
Version_bump_FeatureSwapped(v, c) ==
    IF c.breaking THEN [v EXCEPT !.major = v.major + 1]
    ELSE CASE c.commit_type = "Fix" ->
                [v EXCEPT !.patch = v.patch + 1, !.pre_release = None, !.metadata = None]
           [] c.commit_type = "Feature" ->
                [v EXCEPT !.patch = v.patch + 1, !.minor = 0,
                          !.pre_release = None, !.metadata = None]
           [] c.commit_type = "BreakingChange" ->
                [v EXCEPT !.major = v.major + 1, !.minor = 0, !.patch = 0,
                          !.pre_release = None, !.metadata = None]
           [] OTHER -> v

\* the optional fields cleared for the types that move no number
Version_bump_OtherClears(v, c) ==
    IF c.breaking THEN [v EXCEPT !.major = v.major + 1]
    ELSE CASE c.commit_type = "Fix" ->
                [v EXCEPT !.patch = v.patch + 1, !.pre_release = None, !.metadata = None]
           [] c.commit_type = "Feature" ->
                [v EXCEPT !.minor = v.minor + 1, !.patch = 0,
                          !.pre_release = None, !.metadata = None]
           [] c.commit_type = "BreakingChange" ->
                [v EXCEPT !.major = v.major + 1, !.minor = 0, !.patch = 0,
                          !.pre_release = None, !.metadata = None]
           [] OTHER -> [v EXCEPT !.pre_release = None, !.metadata = None]

\* Version::bump
Version_bump(v, c) ==
    IF c.breaking THEN [v EXCEPT !.major = v.major + 1]
    ELSE CASE c.commit_type = "Fix" ->
                [v EXCEPT !.patch = v.patch + 1, !.pre_release = None, !.metadata = None]
           [] c.commit_type = "Feature" ->
                [v EXCEPT !.minor = v.minor + 1, !.patch = 0,
                          !.pre_release = None, !.metadata = None]
           [] c.commit_type = "BreakingChange" ->
                [v EXCEPT !.major = v.major + 1, !.minor = 0, !.patch = 0,
                          !.pre_release = None, !.metadata = None]
           [] OTHER -> v

\* the optional fields survive a Fix
Commit_bump_FixKeepsOptionals(c, v) ==
    IF c.breaking THEN [reset(v) EXCEPT !.major = v.major + 1]
    ELSE CASE c.commit_type = "Fix" -> [v EXCEPT !.patch = v.patch + 1]
           [] c.commit_type = "Feature" ->
                [v EXCEPT !.minor = v.minor + 1, !.patch = 0,
                          !.pre_release = None, !.metadata = None]
           [] c.commit_type = "BreakingChange" ->
                [v EXCEPT !.major = v.major + 1, !.minor = 0, !.patch = 0,
                          !.pre_release = None, !.metadata = None]
           [] OTHER -> v

\* Commit::bump
Commit_bump(c, v) ==
    IF c.breaking THEN [reset(v) EXCEPT !.major = v.major + 1]
    ELSE CASE c.commit_type = "Fix" ->
                [v EXCEPT !.patch = v.patch + 1, !.pre_release = None, !.metadata = None]
           [] c.commit_type = "Feature" ->
                [v EXCEPT !.minor = v.minor + 1, !.patch = 0,
                          !.pre_release = None, !.metadata = None]
           [] c.commit_type = "BreakingChange" ->
                [v EXCEPT !.major = v.major + 1, !.minor = 0, !.patch = 0,
                          !.pre_release = None, !.metadata = None]
           [] OTHER -> v

\* Feature takes the patch back instead of the minor
Version_rollback_FeaturePatch(v, c) ==
    IF c.breaking THEN [v EXCEPT !.major = WrappingDec(v.major)]
    ELSE CASE c.commit_type = "Fix" -> [v EXCEPT !.patch = WrappingDec(v.patch)]
           [] c.commit_type = "Feature" -> [v EXCEPT !.patch = WrappingDec(v.patch)]
           [] c.commit_type = "BreakingChange" -> [v EXCEPT !.major = WrappingDec(v.major)]
           [] OTHER -> v

\* a breaking commit also takes the minor back
Version_rollback_BreakingMinor(v, c) ==
    IF c.breaking THEN [v EXCEPT !.major = WrappingDec(v.major), !.minor = WrappingDec(v.minor)]
    ELSE CASE c.commit_type = "Fix" -> [v EXCEPT !.patch = WrappingDec(v.patch)]
           [] c.commit_type = "Feature" -> [v EXCEPT !.minor = WrappingDec(v.minor)]
           [] c.commit_type = "BreakingChange" -> [v EXCEPT !.major = WrappingDec(v.major)]
           [] OTHER -> v

\* Version::rollback, the arithmetic wrapping
Version_rollback(v, c) ==
    IF c.breaking THEN [v EXCEPT !.major = WrappingDec(v.major)]
    ELSE CASE c.commit_type = "Fix" -> [v EXCEPT !.patch = WrappingDec(v.patch)]
           [] c.commit_type = "Feature" -> [v EXCEPT !.minor = WrappingDec(v.minor)]
           [] c.commit_type = "BreakingChange" -> [v EXCEPT !.major = WrappingDec(v.major)]
           [] OTHER -> v

\* the exhausted side taken for the greater one
RECURSIVE IdentifiersCmp_ExhaustedGreater(_, _)
IdentifiersCmp_ExhaustedGreater(s, o) ==
    IF s = <<>> /\ o = <<>> THEN Equal
    ELSE IF s = <<>> THEN Greater
    ELSE IF o = <<>> THEN Less
    ELSE IF StrCmp(Head(s), Head(o)) # Equal THEN StrCmp(Head(s), Head(o))
    ELSE IdentifiersCmp_ExhaustedGreater(Tail(s), Tail(o))

\* the loop of Version::cmp over the two identifier lists
RECURSIVE IdentifiersCmp(_, _)
IdentifiersCmp(s, o) ==
    IF s = <<>> /\ o = <<>> THEN Equal
    ELSE IF s = <<>> THEN Less
    ELSE IF o = <<>> THEN Greater
    ELSE IF StrCmp(Head(s), Head(o)) # Equal THEN StrCmp(Head(s), Head(o))
    ELSE IdentifiersCmp(Tail(s), Tail(o))

\* derive(PartialEq, Eq) on Version: all five fields are compared
Version_eq(self, other) ==
    /\ self.major = other.major
    /\ self.minor = other.minor
    /\ self.patch = other.patch
    /\ self.pre_release = other.pre_release
    /\ self.metadata = other.metadata

\* minor looked at before major
Cmp_MinorFirst(self, other) ==
    IF self.minor # other.minor THEN NumCmp(self.minor, other.minor)
    ELSE IF self.major # other.major THEN NumCmp(self.major, other.major)
    ELSE IF self.patch # other.patch THEN NumCmp(self.patch, other.patch)
    ELSE IF ~(IsSome(self.pre_release) /\ IsSome(other.pre_release))
         THEN Reverse(OptionCmp(self.pre_release, other.pre_release))
    ELSE IdentifiersCmp(Split(Unwrap(self.pre_release)), Split(Unwrap(other.pre_release)))

\* metadata used to break a tie
Cmp_MetadataTieBreak(self, other) ==
    IF self.major # other.major THEN NumCmp(self.major, other.major)
    ELSE IF self.minor # other.minor THEN NumCmp(self.minor, other.minor)
    ELSE IF self.patch # other.patch THEN NumCmp(self.patch, other.patch)
    ELSE IF ~(IsSome(self.pre_release) /\ IsSome(other.pre_release))
         THEN Reverse(OptionCmp(self.pre_release, other.pre_release))
    ELSE LET r == IdentifiersCmp(Split(Unwrap(self.pre_release)),
                                 Split(Unwrap(other.pre_release)))
         IN IF r = Equal THEN OptionCmp(self.metadata, other.metadata) ELSE r

\* the Option comparison used without .reverse()
Cmp_NotReversed(self, other) ==
    IF self.major # other.major THEN NumCmp(self.major, other.major)
    ELSE IF self.minor # other.minor THEN NumCmp(self.minor, other.minor)
    ELSE IF self.patch # other.patch THEN NumCmp(self.patch, other.patch)
    ELSE IF ~(IsSome(self.pre_release) /\ IsSome(other.pre_release))
         THEN OptionCmp(self.pre_release, other.pre_release)
    ELSE IdentifiersCmp(Split(Unwrap(self.pre_release)), Split(Unwrap(other.pre_release)))

\* impl Ord for Version
Cmp(self, other) ==
    IF self.major # other.major THEN NumCmp(self.major, other.major)
    ELSE IF self.minor # other.minor THEN NumCmp(self.minor, other.minor)
    ELSE IF self.patch # other.patch THEN NumCmp(self.patch, other.patch)
    ELSE IF ~(IsSome(self.pre_release) /\ IsSome(other.pre_release))
         THEN Reverse(OptionCmp(self.pre_release, other.pre_release))
    ELSE IdentifiersCmp(Split(Unwrap(self.pre_release)), Split(Unwrap(other.pre_release)))

----------------------------------------------------------------------------
(* Commit::lint *)

LowerCase ==
    <<"a", "b", "c", "d", "e", "f", "g", "h", "i", "j", "k", "l", "m", "n", "o", "p", "q", "r", "s", "t", "u", "v", "w", "x", "y", "z">>
UpperCase ==
    <<"A", "B", "C", "D", "E", "F", "G", "H", "I", "J", "K", "L", "M", "N", "O", "P", "Q", "R", "S", "T", "U", "V", "W", "X", "Y", "Z">>

Range(f) == {f[k] : k \in DOMAIN f}

\* the largest element of a non-empty set of integers
Max(S) == CHOOSE m \in S : \A n \in S : n <= m

\* str::to_lowercase, on the characters the type class admits
ToLowerChar(c) ==
    IF c \in Range(UpperCase)
    THEN LowerCase[CHOOSE k \in DOMAIN UpperCase : UpperCase[k] = c]
    ELSE c

to_lowercase(s) == [k \in 1..Len(s) |-> ToLowerChar(s[k])]

\* [a-z,A-Z] of COMMIT_RE: letters and the comma
IsTypeChar(c) == c \in Range(LowerCase) \cup Range(UpperCase) \cup {","}

\* the pattern of COMMIT_RE holds the atomic group (?>: )
COMMIT_RE_has_atomic_group == TRUE

\* the pattern of BODY_FOOTER_RE holds the atomic group (?>: )
BODY_FOOTER_RE_has_atomic_group == TRUE

\* Regex::new(..).is_ok(): the syntax of the regex crate has no atomic groups,
\* "(?>" is an unrecognized flag and the pattern is rejected
Regex_new_is_ok(has_atomic_group) == ~has_atomic_group

\* the index after the longest run of [a-z,A-Z] that starts at i
RECURSIVE TypeRunEnd(_, _)
TypeRunEnd(text, i) ==
    IF i <= Len(text) /\ IsTypeChar(text[i]) THEN TypeRunEnd(text, i + 1) ELSE i

\* the index after the longest run of . (any character but a line feed) from i
RECURSIVE LineEnd(_, _)
LineEnd(text, i) ==
    IF i <= Len(text) /\ text[i] # "\n" THEN LineEnd(text, i + 1) ELSE i

\* ": " at r
HasSeparatorAt(text, r) == r + 1 <= Len(text) /\ text[r] = ":" /\ text[r + 1] = " "

\* (!)?(?>: ) tried at r: with the mark first, then without
AfterBang(text, r) ==
    IF r <= Len(text) /\ text[r] = "!" /\ HasSeparatorAt(text, r + 1)
    THEN Some([g4 |-> TRUE, colon |-> r + 1])
    ELSE IF HasSeparatorAt(text, r) THEN Some([g4 |-> FALSE, colon |-> r])
    ELSE None

\* the closing parentheses that let the rest of the pattern match, for a scope
\* opened at p
ScopeCloses(text, p) ==
    IF p <= Len(text) /\ text[p] = "("
    THEN {q \in (p + 1)..Len(text) :
            /\ text[q] = ")"
            /\ \A k \in (p + 1)..(q - 1) : text[k] # "\n"
            /\ IsSome(AfterBang(text, q + 1))}
    ELSE {}

\* (\((.+)?\))? and what follows, tried at p: .+ is greedy, so the last closing
\* parenthesis that works is taken; then "()" ; then no scope at all
AfterScope(text, p) ==
    LET closes == ScopeCloses(text, p)
    IN IF closes # {}
       THEN LET q == Max(closes)
            IN Some([g2 |-> Some(Slice(text, p, q + 1)),
                     g3 |-> IF q > p + 1 THEN Some(Slice(text, p + 1, q)) ELSE None,
                     rest |-> Unwrap(AfterBang(text, q + 1))])
       ELSE IF IsSome(AfterBang(text, p))
       THEN Some([g2 |-> None, g3 |-> None, rest |-> Unwrap(AfterBang(text, p))])
       ELSE None

\* the six groups of a match that starts at i, with the type ending before e,
\* the description starting at from and its line ending before eol
CommitGroups(text, i, e, scope, from, eol) ==
    Some([g1 |-> IF e > i THEN Some(Slice(text, i, e)) ELSE None,
          g2 |-> scope.g2,
          g3 |-> scope.g3,
          g4 |-> scope.rest.g4,
          g5 |-> IF eol > from THEN Some(Slice(text, from, eol)) ELSE None,
          g6 |-> IF eol + 1 <= Len(text) /\ text[eol] = "\n" /\ text[eol + 1] = "\n"
                   THEN Some(Slice(text, eol, Len(text) + 1)) ELSE None])

\* (.+)? takes the rest of the line after ": "
CommitMatchScoped(text, i, e, scope) ==
    CommitGroups(text, i, e, scope, scope.rest.colon + 2, LineEnd(text, scope.rest.colon + 2))

\* [a-z,A-Z]+ is greedy: of the ends of the type that let the rest match, the
\* last is taken (e = i: no type)
CommitMatchEnds(text, i, ends) ==
    IF ends = {} THEN None
    ELSE CommitMatchScoped(text, i, Max(ends), Unwrap(AfterScope(text, Max(ends))))

\* COMMIT_RE tried at position i: the captures, or None
CommitMatchAt(text, i) ==
    CommitMatchEnds(text, i, {e \in i..TypeRunEnd(text, i) : IsSome(AfterScope(text, e))})

\* COMMIT_RE.captures: the leftmost match
CommitCaptures(text) ==
    LET starts == {i \in 1..Len(text) : IsSome(CommitMatchAt(text, i))}
    IN IF starts = {} THEN None
       ELSE CommitMatchAt(text, CHOOSE i \in starts : \A j \in starts : i <= j)

\* a diagnostic: its level and its message
Violation(level, message) == [level |-> level, message |-> message]

Levels == {"Error", "Warning", "Info", "Suggestion"}

\* derive(Ord) on Level: the order of the variants
LevelRank(level) ==
    CASE level = "Error" -> 0 [] level = "Warning" -> 1
      [] level = "Info" -> 2 [] level = "Suggestion" -> 3

\* the match of get_commit_type on the lower-cased token
TypeOfToken(t) ==
    CASE t = <<"f", "i", "x">> -> "Fix"
      [] t = <<"f", "e", "a", "t">> -> "Feature"
      [] t = <<"b", "r", "e", "a", "k", "i", "n", "g", " ", "c", "h", "a", "n", "g", "e">> -> "BreakingChange"
      [] t = <<"b", "u", "i", "l", "d">> -> "Build"
      [] t = <<"c", "h", "o", "r", "e">> -> "Chore"
      [] t = <<"s", "t", "y", "l", "e">> -> "Style"
      [] t = <<"d", "o", "c", "s">> -> "Docs"
      [] t = <<"r", "e", "f", "a", "c", "t", "o", "r">> -> "Refactor"
      [] t = <<"p", "e", "r", "f">> -> "Performance"
      [] t = <<"t", "e", "s", "t">> -> "Test"
      [] t = <<"c", "i">> -> "Ci"
      [] t = <<"o", "t", "h", "e", "r">> -> "Other"
      [] OTHER -> "Other"

\* a getter gives its value and the diagnostics it pushed
Got(value, lints) == [value |-> value, lints |-> lints]

get_commit_type(caps) ==
    IF IsNone(caps.g1)
    THEN Got(None, <<Violation("Error", "Mandatory commit type is missing")>>)
    ELSE Got(Some(TypeOfToken(to_lowercase(Unwrap(caps.g1)))), <<>>)

get_commit_scope(caps) ==
    IF IsNone(caps.g2)
    THEN Got(None, <<Violation("Suggestion", "Optional scope is missing")>>)
    ELSE IF IsNone(caps.g3)
    THEN Got(None, <<Violation("Error", "Scope is empty")>>)
    ELSE Got(caps.g3, <<>>)

get_commit_header(caps) ==
    IF IsNone(caps.g5)
    THEN Got(None, <<Violation("Error", "Mandatory description is missing")>>)
    ELSE Got(caps.g5, <<>>)

\* BODY_FOOTER_RE.find(&body).start(): where the first line that holds ": "
\* begins, or None
BodyFooterStart(body) ==
    LET starts == {i \in 1..Len(body) :
                      \E j \in i..Len(body) :
                          /\ HasSeparatorAt(body, j)
                          /\ \A k \in i..(j - 1) : body[k] # "\n"}
    IN IF starts = {} THEN None
       ELSE Some(CHOOSE i \in starts : \A j \in starts : i <= j)

\* get_commit_body_footer: the value is the body (the footer map is filled and
\* dropped, the second component stays None)
get_commit_body_footer(caps) ==
    IF IsNone(caps.g6) THEN Got([body |-> None, footer |-> None], <<>>)
    ELSE LET body == Unwrap(caps.g6)
             start == BodyFooterStart(body)
         IN IF IsNone(start)
            THEN Got([body |-> Some(body), footer |-> None],
                     <<Violation("Info", "No footer found")>>)
            ELSE Got([body |-> Some(SubSeq(body, 1, Unwrap(start) - 1)), footer |-> None],
                     <<>>)

\* sort_unstable on the diagnostics: ordered by level, equal levels in any order
sort_unstable(lints) ==
    LET n == Len(lints)
        perms == {f \in [1..n -> 1..n] : \A a \in 1..n, b \in 1..n : f[a] = f[b] => a = b}
    IN {[k \in 1..n |-> lints[f[k]]] : f \in
           {g \in perms : \A a \in 1..n, b \in 1..n :
               a < b => LevelRank(lints[g[a]].level) <= LevelRank(lints[g[b]].level)}}

HasError(lints) == \E k \in 1..Len(lints) : lints[k].level = "Error"

\* an outcome of a call: it panicked, or it returned a LintResult
Panic == [panicked |-> TRUE, result |-> None]
Returned(res) == [panicked |-> FALSE, result |-> Some(res)]

FormatMessage == "The format of the commit message is not conformant to conventional commit specification"

\* Commit::lint with both patterns compiled: the outcomes for a message
LintCompiled(commit) ==
    LET caps_option == CommitCaptures(commit)
    IN IF IsNone(caps_option)
       THEN {Returned([commit |-> None, lints |-> <<Violation("Error", FormatMessage)>>])}
       ELSE LET caps == Unwrap(caps_option)
                commit_type == get_commit_type(caps)
                scope == get_commit_scope(caps)
                header == get_commit_header(caps)
                body == get_commit_body_footer(caps)
                lints == commit_type.lints \o scope.lints \o header.lints \o body.lints
                built ==
                    IF ~HasError(lints) /\ IsSome(commit_type.value) /\ IsSome(header.value)
                    THEN Some([breaking |-> caps.g4 \/ Unwrap(commit_type.value) = "BreakingChange",
                               commit_type |-> Unwrap(commit_type.value),
                               scope |-> scope.value,
                               description |-> Unwrap(header.value),
                               body |-> body.value.body,
                               footer |-> body.value.footer])
                    ELSE None
            IN {Returned([commit |-> built, lints |-> sorted]) : sorted \in sort_unstable(lints)}

\* Commit::lint: the first use of COMMIT_RE compiles it, and the unwrap of a
\* rejected pattern panics before the message is looked at; so does the first
\* use of BODY_FOOTER_RE, reached when the message has a body
Commit_lint(commit) ==
    IF ~Regex_new_is_ok(COMMIT_RE_has_atomic_group) THEN {Panic}
    ELSE LET caps_option == CommitCaptures(commit)
         IN IF /\ IsSome(caps_option)
               /\ IsSome(Unwrap(caps_option).g6)
               /\ ~Regex_new_is_ok(BODY_FOOTER_RE_has_atomic_group)
            THEN {Panic}
            ELSE LintCompiled(commit)

----------------------------------------------------------------------------
(* Inputs *)

\* digit runs offered as major, minor and patch
NumRuns == {<<"0">>, <<"1">>, <<"2">>, <<"0", "1">>, <<"1", "2">>}

SuffixChars == {"-", "+", "a"}

\* what follows major.minor.patch in an input
Suffixes ==
    {<<>>} \cup {<<x>> : x \in SuffixChars}
           \cup {<<x, y>> : x \in SuffixChars, y \in SuffixChars}
           \cup {<<"-", "a", ".", "1", "+", "b", "-", "1">>}

Prefixes == {<<>>, <<"v">>}

VersionTexts ==
    {p \o ma \o <<".">> \o mi \o <<".">> \o pa \o s :
        p \in Prefixes, ma \in NumRuns, mi \in {<<"0">>, <<"2">>}, pa \in NumRuns, s \in Suffixes}

MalformedTexts == {<<>>, <<"2", ".", "3">>, <<"a">>, <<"1", ".", "2", ".">>}

Texts == VersionTexts \cup MalformedTexts

\* pre_release identifiers of the comparison inputs
Alpha == <<"a", "l", "p", "h", "a">>
Beta == <<"b", "e", "t", "a">>
Rc == <<"r", "c">>
Identifiers == {Alpha, Beta, Rc, <<"1">>, <<"2">>, <<"1", "1">>, <<"1", "a">>, <<"-", "a">>}

CmpPreReleases ==
    {None} \cup {Some(i) : i \in Identifiers}
           \cup {Some(h \o <<".">> \o i) : h \in {Alpha, Beta, Rc}, i \in Identifiers}

CmpTriples == {<<1, 0, 0>>, <<1, 0, 1>>, <<1, 1, 0>>, <<2, 0, 0>>}

CmpVersions ==
    {Version(t[1], t[2], t[3], pre, meta) :
        t \in CmpTriples, pre \in CmpPreReleases, meta \in {None, Some(<<"m">>)}}

\* all strings of length n over an alphabet
RECURSIVE StringsOfLen(_, _)
StringsOfLen(alphabet, n) ==
    IF n = 0 THEN {<<>>}
    ELSE {Append(s, c) : s \in StringsOfLen(alphabet, n - 1), c \in alphabet}

StringsUpTo(alphabet, n) == UNION {StringsOfLen(alphabet, k) : k \in 0..n}

\* inputs of parse alone: every short string, and every suffix after a triple
MaxTextLen == 5
MaxSuffixLen == 3

ParseAlphabet == {"1", ".", "-", "+", "a"} \cup UnicodeDigits
ParseSuffixAlphabet == {"1", ".", "-", "+", "a"}
ParseRuns == {<<"1">>, <<"1", "1">>} \cup {<<d>> : d \in UnicodeDigits}

ParseTexts ==
    Texts
      \cup StringsUpTo(ParseAlphabet, MaxTextLen)
      \cup {p \o ma \o <<".">> \o mi \o <<".">> \o pa \o s :
                p \in {<<>>, <<"a">>}, ma \in ParseRuns, mi \in ParseRuns, pa \in ParseRuns,
                s \in StringsUpTo(ParseSuffixAlphabet, MaxSuffixLen)}

\* commit messages: a type token, a scope, the breaking mark, the separator, a
\* description and what follows the first line
MessageTypes ==
    {<<>>,
     <<"f", "i", "x">>,
     <<"f", "e", "a", "t">>,
     <<"b", "u", "i", "l", "d">>,
     <<"c", "h", "o", "r", "e">>,
     <<"c", "i">>,
     <<"d", "o", "c", "s">>,
     <<"s", "t", "y", "l", "e">>,
     <<"r", "e", "f", "a", "c", "t", "o", "r">>,
     <<"p", "e", "r", "f">>,
     <<"t", "e", "s", "t">>,
     <<"o", "t", "h", "e", "r">>,
     <<"b", "r", "e", "a", "k", "i", "n", "g", " ", "c", "h", "a", "n", "g", "e">>,
     <<"B", "R", "E", "A", "K", "I", "N", "G", " ", "C", "H", "A", "N", "G", "E">>,
     <<"F", "i", "x">>,
     <<"F", "E", "A", "T">>,
     <<"f", "o", "o">>}
MessageScopes == {<<>>, <<"(", ")">>, <<"(", "p", ")">>, <<"(", "p">>, <<"(", "a", ")", "(", "b", ")">>}
MessageMarks == {<<>>, <<"!">>}
MessageSeparators == {<<":", " ">>, <<":">>, <<" ">>, <<>>}
MessageDescriptions ==
    {<<>>, <<"x">>, <<"x", ":", " ", "y">>, <<" ", "x", " ">>, <<"x", ")", ":", " ", "y">>}
MessageTrailers ==
    {<<>>, <<"\n", "b">>, <<"\n", "\n", "b">>,
     <<"\n", "\n", "b", "\n", "\n", "k", ":", " ", "v">>,
     <<"\n", "\n", "k", ":", " ", "v", "\n", "k", ":", " ", "w">>}

Messages ==
    {t \o s \o m \o sep \o d \o r :
        t \in MessageTypes, s \in MessageScopes, m \in MessageMarks,
        sep \in MessageSeparators, d \in MessageDescriptions, r \in MessageTrailers}

----------------------------------------------------------------------------
(* The life of one Version: parse, then bump and rollback *)

Op(name, c, before, text, origin) ==
    [op |-> name, commit |-> c, before |-> before, text |-> text, origin |-> origin]

Start == Version(0, 0, 0, None, None)

Init ==
    /\ version = None
    /\ status = "ok"
    /\ last = Op("init", None, None, <<>>, None)
    /\ overflow_checks \in BOOLEAN
    /\ lhs = Start
    /\ rhs = Start
    /\ ordering = None
    /\ lint_result = None

\* Version::parse(text)
DoParse ==
    \E text \in Texts :
        /\ last.op = "init"
        /\ version' = Parse(text)
        /\ last' = Op("parse", None, None, text, None)
        /\ UNCHANGED <<status, overflow_checks, lhs, rhs, ordering, lint_result>>

\* version.bump(&commit)
DoVersionBump ==
    \E c \in Commits :
        /\ status = "ok"
        /\ IsSome(version)
        /\ Fits(Unwrap(version), c)
        /\ version' = Some(Version_bump(Unwrap(version), c))
        /\ last' = Op("Version::bump", Some(c), version, <<>>, None)
        /\ UNCHANGED <<status, overflow_checks, lhs, rhs, ordering, lint_result>>

\* commit.bump(&mut version)
DoCommitBump ==
    \E c \in Commits :
        /\ status = "ok"
        /\ IsSome(version)
        /\ Fits(Unwrap(version), c)
        /\ version' = Some(Commit_bump(c, Unwrap(version)))
        /\ last' = Op("Commit::bump", Some(c), version, <<>>, None)
        /\ UNCHANGED <<status, overflow_checks, lhs, rhs, ordering, lint_result>>

IsBump(l) == l.op \in {"Version::bump", "Commit::bump"}

\* version.rollback(&last_commit): at zero the subtraction panics when the build
\* checks overflow and wraps when it does not
DoRollback ==
    \E c \in Commits :
        /\ status = "ok"
        /\ IsSome(version)
        /\ IF Underflows(Unwrap(version), c) /\ overflow_checks
             THEN /\ status' = "panicked"
                  /\ version' = version
             ELSE /\ status' = "ok"
                  /\ version' = Some(Version_rollback(Unwrap(version), c))
        /\ last' = Op("rollback", Some(c), version, <<>>,
                      IF IsBump(last) /\ last.commit = Some(c) THEN last.before ELSE None)
        /\ UNCHANGED <<overflow_checks, lhs, rhs, ordering, lint_result>>

Next == DoParse \/ DoVersionBump \/ DoCommitBump \/ DoRollback

Spec == Init /\ [][Next]_vars

----------------------------------------------------------------------------
(* Comparing two Versions *)

InitCmp ==
    /\ version = None
    /\ status = "ok"
    /\ last = Op("init", None, None, <<>>, None)
    /\ overflow_checks = FALSE
    /\ lhs \in CmpVersions
    /\ rhs \in CmpVersions
    /\ ordering = None
    /\ lint_result = None

\* lhs.cmp(&rhs)
DoCmp ==
    /\ IsNone(ordering)
    /\ ordering' = Some(Cmp(lhs, rhs))
    /\ UNCHANGED <<version, status, last, overflow_checks, lhs, rhs, lint_result>>

NextCmp == DoCmp

SpecCmp == InitCmp /\ [][NextCmp]_vars

----------------------------------------------------------------------------
(* Parsing alone *)

InitParse ==
    /\ version = None
    /\ status = "ok"
    /\ last = Op("init", None, None, <<>>, None)
    /\ overflow_checks = FALSE
    /\ lhs = Start
    /\ rhs = Start
    /\ ordering = None
    /\ lint_result = None

\* Version::parse(text), any text
DoParseAny ==
    /\ last.op = "init"
    /\ \E text \in ParseTexts :
          /\ version' = Parse(text)
          /\ last' = Op("parse", None, None, text, None)
    /\ UNCHANGED <<status, overflow_checks, lhs, rhs, ordering, lint_result>>

NextParse == DoParseAny

SpecParse == InitParse /\ [][NextParse]_vars

----------------------------------------------------------------------------
(* Linting one commit message *)

InitLint ==
    /\ version = None
    /\ status = "ok"
    /\ last = Op("init", None, None, <<>>, None)
    /\ overflow_checks = FALSE
    /\ lhs = Start
    /\ rhs = Start
    /\ ordering = None
    /\ lint_result = None

\* Commit::lint(&commit)
DoLint ==
    /\ last.op = "init"
    /\ \E message \in Messages :
          \E outcome \in Commit_lint(message) :
              /\ status' = (IF outcome.panicked THEN "panicked" ELSE "ok")
              /\ lint_result' = outcome.result
              /\ last' = Op("lint", None, None, message, None)
    /\ UNCHANGED <<version, overflow_checks, lhs, rhs, ordering>>

NextLint == DoLint

SpecLint == InitLint /\ [][NextLint]_vars

----------------------------------------------------------------------------
(* Properties of bump and rollback (checked under Spec) *)

\* the operation that led to the current state
TheCommit == Unwrap(last.commit)
Before == Unwrap(last.before)
Now == Unwrap(version)

Bumped == IsBump(last) /\ status = "ok"
RolledBack == last.op = "rollback"

\* C1: after bump with a breaking commit, whatever its type, major is one more
\* than before, minor and patch are 0, and pre_release and metadata are absent.
CE_C1 ==
    (Bumped /\ TheCommit.breaking)
        => Now = Version(Before.major + 1, 0, 0, None, None)

Thm_C4 ==
    (RolledBack /\ IsSome(last.origin)) =>
        /\ status = "ok"
        /\ Target(TheCommit) # "none"
              => Field(Now, Target(TheCommit)) = Field(Unwrap(last.origin), Target(TheCommit))

Wit_C4 ==
    /\ RolledBack
    /\ IsSome(last.origin)
    /\ ~TheCommit.breaking
    /\ TheCommit.commit_type = "Feature"
    /\ Unwrap(last.origin).patch > 0

\* C5: rollback on a Version whose field to decrement is 0 reports a failure
\* to the caller: it does not abort, it does not return normally with the field
\* wrapped to the largest value or left at 0.
CE_C5 ==
    (RolledBack /\ Underflows(Before, TheCommit)) =>
        /\ status # "panicked"
        /\ status # "ok"

\* C6: every Version reached from a parsed Version by bump and rollback is
\* returned by parse from its rendered string, equal in all five fields.
Thm_C6 == IsSome(version) => Parse(Display(Now)) = Some(Now)

Wit_C6 ==
    /\ RolledBack
    /\ status = "ok"
    /\ IsSome(version)
    /\ Now # Before
    /\ IsSome(Now.pre_release)
    /\ IsSome(Now.metadata)

----------------------------------------------------------------------------
(* Properties of the ordering (checked under SpecCmp) *)

Compared == IsSome(ordering)
SameTriple == lhs.major = rhs.major /\ lhs.minor = rhs.minor /\ lhs.patch = rhs.patch

Pre(ids) == Version(1, 0, 0, Some(ids), None)

\* 1.0.0-alpha, 1.0.0-alpha.1, 1.0.0-alpha.beta, 1.0.0-beta, 1.0.0-beta.2,
\* 1.0.0-beta.11, 1.0.0-rc.1, 1.0.0
Chain ==
    << Pre(Alpha),
       Pre(Alpha \o <<".", "1">>),
       Pre(Alpha \o <<".">> \o Beta),
       Pre(Beta),
       Pre(Beta \o <<".", "2">>),
       Pre(Beta \o <<".", "1", "1">>),
       Pre(Rc \o <<".", "1">>),
       Version(1, 0, 0, None, None) >>

\* C7: every adjacent pair of the chain compares as Less.
CE_C7 ==
    \A k \in 1..(Len(Chain) - 1) :
        (Compared /\ lhs = Chain[k] /\ rhs = Chain[k + 1]) => ordering = Some(Less)

\* an identifier made of digits only
IsNumeric(id) == id # <<>> /\ \A k \in 1..Len(id) : IsDigit(id[k])

RECURSIVE NumericValueFrom(_, _)
NumericValueFrom(id, acc) ==
    IF id = <<>> THEN acc ELSE NumericValueFrom(Tail(id), acc * 10 + (Byte(Head(id)) - 48))

NumericValue(id) == NumericValueFrom(id, 0)

LhsIdentifiers == Split(Unwrap(lhs.pre_release))
RhsIdentifiers == Split(Unwrap(rhs.pre_release))

\* the first position at which both lists have an identifier and these differ, or 0
FirstDifference ==
    LET n == IF Len(LhsIdentifiers) < Len(RhsIdentifiers)
               THEN Len(LhsIdentifiers) ELSE Len(RhsIdentifiers)
        diff == {k \in 1..n : LhsIdentifiers[k] # RhsIdentifiers[k]}
    IN IF diff = {} THEN 0 ELSE CHOOSE k \in diff : \A j \in diff : k <= j

BothPreReleases ==
    Compared /\ SameTriple /\ IsSome(lhs.pre_release) /\ IsSome(rhs.pre_release)

\* C8: when the pre_releases first differ at two identifiers made of digits only,
\* the Versions compare as the numeric values of these identifiers do.
CE_C8 ==
    (BothPreReleases /\ FirstDifference > 0) =>
        LET s == LhsIdentifiers[FirstDifference]
            o == RhsIdentifiers[FirstDifference]
        IN (IsNumeric(s) /\ IsNumeric(o))
              => ordering = Some(NumCmp(NumericValue(s), NumericValue(o)))

\* C9: when the pre_releases first differ at a numeric and a non-numeric
\* identifier, the Version with the numeric identifier is the lower one.
CE_C9 ==
    (BothPreReleases /\ FirstDifference > 0) =>
        LET s == LhsIdentifiers[FirstDifference]
            o == RhsIdentifiers[FirstDifference]
        IN /\ (IsNumeric(s) /\ ~IsNumeric(o)) => ordering = Some(Less)
           /\ (~IsNumeric(s) /\ IsNumeric(o)) => ordering = Some(Greater)

\* C10: with equal major, minor and patch, the Version without pre_release
\* compares Greater than the one with a pre_release, whatever the metadata.
Thm_C10 ==
    (Compared /\ SameTriple) =>
        /\ (IsNone(lhs.pre_release) /\ IsSome(rhs.pre_release)) => ordering = Some(Greater)
        /\ (IsSome(lhs.pre_release) /\ IsNone(rhs.pre_release)) => ordering = Some(Less)

Wit_C10 ==
    /\ Compared
    /\ SameTriple
    /\ IsNone(lhs.pre_release)
    /\ IsSome(lhs.metadata)
    /\ IsSome(rhs.pre_release)
    /\ IsNone(rhs.metadata)
    /\ ordering = Some(Greater)

\* metadata values tried in place of the ones compared
MetadataChoices == {None, Some(<<"m">>), Some(<<"1">>), Some(Alpha)}

\* C11: metadata never affects comparison: replacing the metadata of either
\* Version by any other value (present or absent) leaves the result of cmp
\* the same, and Versions that differ only in metadata compare Equal.
Thm_C11 ==
    Compared =>
        /\ \A m1 \in MetadataChoices, m2 \in MetadataChoices :
              Cmp([lhs EXCEPT !.metadata = m1], [rhs EXCEPT !.metadata = m2]) = Unwrap(ordering)
        /\ [lhs EXCEPT !.metadata = None] = [rhs EXCEPT !.metadata = None]
              => ordering = Some(Equal)

Wit_C11 ==
    /\ Compared
    /\ IsSome(lhs.pre_release)
    /\ lhs.pre_release = rhs.pre_release
    /\ SameTriple
    /\ IsSome(lhs.metadata)
    /\ IsNone(rhs.metadata)
    /\ ordering = Some(Equal)

\* s is a proper prefix of t
IsProperPrefix(s, t) == Len(s) < Len(t) /\ SubSeq(t, 1, Len(s)) = s

\* C12: with equal major, minor and patch, when the identifier list of one
\* pre_release is a proper prefix of the other's, the Version with the shorter
\* list compares Less.
Thm_C12 ==
    BothPreReleases =>
        /\ IsProperPrefix(LhsIdentifiers, RhsIdentifiers) => ordering = Some(Less)
        /\ IsProperPrefix(RhsIdentifiers, LhsIdentifiers) => ordering = Some(Greater)

Wit_C12 ==
    /\ BothPreReleases
    /\ LhsIdentifiers = <<Alpha>>
    /\ RhsIdentifiers = <<Alpha, <<"1">> >>
    /\ ordering = Some(Less)

----------------------------------------------------------------------------
(* Frame of bump and effect of rollback (checked under Spec) *)

\* C13: bump with a non-breaking commit whose type is none of Fix, Feature and
\* BreakingChange leaves all five fields of the Version unchanged, a present
\* pre_release and a present metadata included.
Thm_C13 ==
    (Bumped /\ ~TheCommit.breaking
            /\ TheCommit.commit_type \notin {"Fix", "Feature", "BreakingChange"})
        => Now = Before

Wit_C13 ==
    /\ Bumped
    /\ last.op = "Version::bump"
    /\ ~TheCommit.breaking
    /\ TheCommit.commit_type = "Docs"
    /\ IsSome(Before.pre_release)
    /\ IsSome(Before.metadata)
    /\ Before.patch > 0

\* v with its numeric field f one lower, every other field as in v
Decremented(v, f) ==
    CASE f = "major" -> [v EXCEPT !.major = v.major - 1]
      [] f = "minor" -> [v EXCEPT !.minor = v.minor - 1]
      [] f = "patch" -> [v EXCEPT !.patch = v.patch - 1]
      [] f = "none" -> v

\* C14: when the targeted field is at least 1, rollback returns with exactly
\* that field one lower (major for a breaking commit or BreakingChange, patch
\* for Fix, minor for Feature) and every other field as before; for a
\* non-breaking commit of any other type the Version is unchanged.
Thm_C14 ==
    (RolledBack /\ ~Underflows(Before, TheCommit)) =>
        /\ status = "ok"
        /\ Now = Decremented(Before, Target(TheCommit))

Wit_C14 ==
    /\ RolledBack
    /\ TheCommit.breaking
    /\ TheCommit.commit_type = "Feature"
    /\ Before.major > 0
    /\ Before.minor > 0
    /\ IsSome(Before.pre_release)
    /\ Now.major = Before.major - 1

----------------------------------------------------------------------------
(* Properties of parse (checked under SpecParse) *)

Parsed == last.op = "parse"

\* a run of ASCII digits: text[i..j], not empty
IsAsciiRun(text, i, j) == i <= j /\ \A k \in i..j : text[k] \in Digits

\* three ASCII digit runs with a dot between the first and the second and a dot
\* between the second and the third, somewhere in the text
ContainsTriple(text) ==
    \E i \in 1..Len(text), j \in 1..Len(text) :
        /\ i < j
        /\ text[i] = "."
        /\ text[j] = "."
        /\ i > 1 /\ text[i - 1] \in Digits
        /\ IsAsciiRun(text, i + 1, j - 1)
        /\ j < Len(text) /\ text[j + 1] \in Digits

\* the run is the decimal text of an unsigned integer of the width
Converts(run) == IsAsciiRun(run, 1, Len(run)) /\ NumericValue(run) <= U64_MAX

\* major, minor and patch as the pattern found them
TheRuns ==
    LET caps == Unwrap(Captures(last.text)) IN {caps.g1, caps.g2, caps.g3}

\* C15: parse returns None for every string that does not contain major, minor
\* and patch as three dot-separated digit runs (such as "2.3"), and for every
\* string in which one of the three runs does not convert to an unsigned
\* integer of the width.
Thm_C15 ==
    Parsed =>
        /\ ~ContainsTriple(last.text) => version = None
        /\ (IsSome(Captures(last.text)) /\ \E run \in TheRuns : ~Converts(run))
              => version = None

Wit_C15 ==
    /\ Parsed
    /\ ContainsTriple(last.text)
    /\ IsSome(Captures(last.text))
    /\ Converts(Unwrap(Captures(last.text)).g1)
    /\ ~Converts(Unwrap(Captures(last.text)).g2)
    /\ version = None

\* a pre_release identifier: not empty, made of ASCII letters, digits and hyphens
IsIdentifier(id) ==
    id # <<>> /\ \A k \in 1..Len(id) : id[k] \in Digits \cup Letters \cup {"-"}

\* C16: every Version that parse returns has pre_release absent or a non-empty
\* string that splits at its dots into non-empty alphanumeric identifiers, kept
\* without the '-' that introduced it, and metadata kept without its '+'.
CE_C16 ==
    (Parsed /\ IsSome(version)) =>
        /\ IsSome(Now.pre_release) =>
              /\ Unwrap(Now.pre_release) # <<>>
              /\ \A k \in DOMAIN Split(Unwrap(Now.pre_release)) :
                    IsIdentifier(Split(Unwrap(Now.pre_release))[k])
              /\ Unwrap(Captures(last.text)).g4 = Some(<<"-">> \o Unwrap(Now.pre_release))
        /\ IsSome(Now.metadata) =>
              Unwrap(Captures(last.text)).g5 = Some(<<"+">> \o Unwrap(Now.metadata))

----------------------------------------------------------------------------
(* Properties of lint (checked under SpecLint) *)

Linted == last.op = "lint"
TheResult == Unwrap(lint_result)
TheCaptures == Unwrap(CommitCaptures(last.text))

\* the messages of the Error diagnostics of a result
ErrorMessages(lints) == {lints[k].message : k \in {j \in 1..Len(lints) : lints[j].level = "Error"}}
ErrorCount(lints) == Cardinality({j \in 1..Len(lints) : lints[j].level = "Error"})

\* C17: lint of a message that the top-level pattern does not match (the empty
\* string included) returns exactly one diagnostic, the Error about the format,
\* with commit = None, and no type, scope, header or footer diagnostic.
CE_C17 ==
    (Linted /\ IsNone(CommitCaptures(last.text))) =>
        /\ status = "ok"
        /\ IsSome(lint_result)
        /\ TheResult.commit = None
        /\ TheResult.lints = <<Violation("Error", FormatMessage)>>

\* the commit type and the header were both extracted from the message
Extracted ==
    IF IsNone(CommitCaptures(last.text)) THEN FALSE
    ELSE IsSome(TheCaptures.g1) /\ IsSome(TheCaptures.g5)

\* C18: for every message lint returns, with commit = Some exactly when the
\* diagnostics hold no Error and both the commit type and the header were
\* extracted; diagnostics of the other levels do not make commit None.
CE_C18 ==
    Linted =>
        /\ status = "ok"
        /\ IsSome(lint_result)
        /\ IsSome(TheResult.commit) <=> (~HasError(TheResult.lints) /\ Extracted)

\* the Error messages owed to a matched message, one for each violated field
OwedErrors(caps) ==
    (IF IsNone(caps.g1) THEN {"Mandatory commit type is missing"} ELSE {})
      \cup (IF IsSome(caps.g2) /\ IsNone(caps.g3) THEN {"Scope is empty"} ELSE {})
      \cup (IF IsNone(caps.g5) THEN {"Mandatory description is missing"} ELSE {})

\* C19: for a message the top-level pattern matches, lint returns one Error for
\* each violated field among type token missing, parentheses present but empty
\* and header missing, whatever the other fields are, and any one of them makes
\* commit None (lint("feat(): x") gives the "Scope is empty" Error and no Commit).
CE_C19 ==
    (Linted /\ IsSome(CommitCaptures(last.text))) =>
        /\ status = "ok"
        /\ IsSome(lint_result)
        /\ ErrorMessages(TheResult.lints) = OwedErrors(TheCaptures)
        /\ ErrorCount(TheResult.lints) = Cardinality(OwedErrors(TheCaptures))
        /\ OwedErrors(TheCaptures) # {} => TheResult.commit = None

\* C20: for a message "<token>: x" with a non-empty type token, lint returns a
\* Commit whose commit_type is the one the lower-cased token names (fix, feat,
\* "breaking change", build, chore, ci, docs, style, refactor, perf, test; Other
\* for every other token), whatever the case of its letters, with no Error.
CE_C20 ==
    \A token \in MessageTypes \ {<<>>} :
        (Linted /\ last.text = token \o <<":", " ", "x">>) =>
            /\ status = "ok"
            /\ IsSome(lint_result)
            /\ ~HasError(TheResult.lints)
            /\ IsSome(TheResult.commit)
            /\ Unwrap(TheResult.commit).commit_type = TypeOfToken(to_lowercase(token))

\* lint returned a LintResult that holds a Commit
GotCommit ==
    IF status = "ok" /\ IsSome(lint_result) THEN IsSome(TheResult.commit) ELSE FALSE
TheLintCommit == Unwrap(TheResult.commit)

\* the type tokens made of letters only
TypeTokens == {t \in MessageTypes : t # <<>> /\ \A k \in 1..Len(t) : IsTypeChar(t[k])}

Fix == <<"f", "i", "x">>
Separator == <<":", " ">>

\* C21: in every Commit that lint returns, breaking is true exactly when '!'
\* stands before the colon or commit_type is BreakingChange; and lint of
\* "fix(p)!: x" returns a Commit with breaking = true, commit_type Fix and
\* scope "p", and no Error or Warning diagnostic.
CE_C21 ==
    Linted =>
        /\ GotCommit =>
              (TheLintCommit.breaking
                  <=> (TheCaptures.g4 \/ TheLintCommit.commit_type = "BreakingChange"))
        /\ last.text = Fix \o <<"(", "p", ")", "!">> \o Separator \o <<"x">> =>
              /\ GotCommit
              /\ TheLintCommit.breaking
              /\ TheLintCommit.commit_type = "Fix"
              /\ TheLintCommit.scope = Some(<<"p">>)
              /\ \A k \in 1..Len(TheResult.lints) :
                    TheResult.lints[k].level \notin {"Error", "Warning"}

IsWhitespace(c) == c \in {" ", "\n"}

\* the string without its leading and trailing whitespace
RECURSIVE TrimStart(_)
TrimStart(s) == IF s # <<>> /\ IsWhitespace(Head(s)) THEN TrimStart(Tail(s)) ELSE s
RECURSIVE TrimEnd(_)
TrimEnd(s) ==
    IF s # <<>> /\ IsWhitespace(s[Len(s)]) THEN TrimEnd(SubSeq(s, 1, Len(s) - 1)) ELSE s
Trimmed(s) == TrimEnd(TrimStart(s))

\* the headers offered after "type:" that hold more than whitespace
Headers == {d \in MessageDescriptions : Trimmed(d) # <<>>}

\* C22: for every message "type: header" with a non-empty header, lint returns
\* a Commit and no Error diagnostic, and the description of the Commit is the
\* text after the colon without its leading and trailing whitespace.
CE_C22 ==
    \A t \in TypeTokens, d \in Headers :
        (Linted /\ last.text = t \o Separator \o d) =>
            /\ GotCommit
            /\ ~HasError(TheResult.lints)
            /\ TheLintCommit.description = Trimmed(<<" ">> \o d)

\* the levels of the diagnostics, in their order
LevelsOf(lints) == [k \in 1..Len(lints) |-> lints[k].level]

\* C23: for a message that matches the grammar, without parentheses and without
\* anything after the header, lint returns a Commit with scope, body and footer
\* None and exactly two diagnostics, one Suggestion (the missing scope) and one
\* Info (no footer).
CE_C23 ==
    \A t \in TypeTokens, m \in MessageMarks :
        (Linted /\ last.text = t \o m \o Separator \o <<"x">>) =>
            /\ GotCommit
            /\ TheLintCommit.scope = None
            /\ TheLintCommit.body = None
            /\ TheLintCommit.footer = None
            /\ Len(TheResult.lints) = 2
            /\ Range(LevelsOf(TheResult.lints)) = {"Suggestion", "Info"}

\* the lines of a block: the pieces between its line feeds
RECURSIVE LinesFrom(_, _)
LinesFrom(s, piece) ==
    IF s = <<>> THEN <<piece>>
    ELSE IF Head(s) = "\n" THEN <<piece>> \o LinesFrom(Tail(s), <<>>)
    ELSE LinesFrom(Tail(s), Append(piece, Head(s)))

Lines(block) == LinesFrom(block, <<>>)

\* a line of the shape "key: value", its key and its value
IsKeyValueLine(line) == \E j \in 1..Len(line) : HasSeparatorAt(line, j)
FirstSeparator(line) ==
    CHOOSE j \in 1..Len(line) :
        HasSeparatorAt(line, j) /\ \A k \in 1..(j - 1) : ~HasSeparatorAt(line, k)
KeyOf(line) == SubSeq(line, 1, FirstSeparator(line) - 1)
ValueOf(line) == SubSeq(line, FirstSeparator(line) + 2, Len(line))

KeyValueLines(block) == {i \in 1..Len(Lines(block)) : IsKeyValueLine(Lines(block)[i])}

\* the footer owed to a block: each key with the value of its last line
OwedFooter(block) ==
    {<<KeyOf(Lines(block)[i]), ValueOf(Lines(block)[i])>> : i \in
        {i \in KeyValueLines(block) :
            \A j \in KeyValueLines(block) :
                j > i => KeyOf(Lines(block)[j]) # KeyOf(Lines(block)[i])}}

\* the first n lines of a block, each with its line feed
RECURSIVE FirstLines(_, _)
FirstLines(lines, n) ==
    IF n = 0 THEN <<>> ELSE FirstLines(lines, n - 1) \o lines[n] \o <<"\n">>

\* the body owed to a block: its text before the first "key: value" line
OwedBody(block) ==
    FirstLines(Lines(block),
               (CHOOSE i \in KeyValueLines(block) :
                    \A j \in KeyValueLines(block) : i <= j) - 1)

\* the message is "<type>: x" followed by one of the trailers
IsPlainWithTrailer ==
    \E t \in TypeTokens, r \in MessageTrailers : last.text = t \o Separator \o <<"x">> \o r

\* what follows the header line, from the empty line on; empty when there is none
TheBlock == IF IsSome(TheCaptures.g6) THEN Unwrap(TheCaptures.g6) ELSE <<>>

\* C24: lint returns, for "<type>: x" and whatever follows, a Commit whose
\* footer is None exactly when the trailing block holds no "key: value" line,
\* and Some of a non-empty map whenever it holds one.
CE_C24 ==
    (Linted /\ IsPlainWithTrailer) =>
        /\ GotCommit
        /\ TheLintCommit.footer = None <=> KeyValueLines(TheBlock) = {}
        /\ KeyValueLines(TheBlock) # {} =>
              IsSome(TheLintCommit.footer) /\ Unwrap(TheLintCommit.footer) # {}

\* C25: when the trailing block holds a "key: value" line, the body of the
\* Commit is the text of the block before the first such line, and the footer
\* maps each key of the lines from there on to the value of its last line.
CE_C25 ==
    (Linted /\ IsPlainWithTrailer) =>
        /\ GotCommit
        /\ KeyValueLines(TheBlock) # {} =>
              /\ TheLintCommit.body = Some(OwedBody(TheBlock))
              /\ TheLintCommit.footer = Some(OwedFooter(TheBlock))

ScopeMessages == {"Optional scope is missing", "Scope is empty"}

\* the diagnostics about the scope
ScopeLints(lints) == {k \in 1..Len(lints) : lints[k].message \in ScopeMessages}

\* C26: with parentheses holding a non-empty text right after the type, scope
\* is Some of exactly that text and there is no scope diagnostic, also when the
\* header holds a later ")" followed by ": "; without parentheses scope is
\* None with exactly one scope diagnostic, a Suggestion.
CE_C26 ==
    \A t \in TypeTokens, m \in MessageMarks, d \in Headers :
        /\ (Linted /\ last.text = t \o <<"(", "p", ")">> \o m \o Separator \o d) =>
              /\ GotCommit
              /\ TheLintCommit.scope = Some(<<"p">>)
              /\ ScopeLints(TheResult.lints) = {}
        /\ (Linted /\ last.text = t \o m \o Separator \o d) =>
              /\ GotCommit
              /\ TheLintCommit.scope = None
              /\ Cardinality(ScopeLints(TheResult.lints)) = 1
              /\ \A k \in ScopeLints(TheResult.lints) :
                    TheResult.lints[k] = Violation("Suggestion", "Optional scope is missing")

\* C27: every call of lint returns its diagnostics ordered by severity, Error
\* first, then Warning, then Info, then Suggestion.
CE_C27 ==
    Linted =>
        /\ status = "ok"
        /\ IsSome(lint_result)
        /\ \A a \in 1..Len(TheResult.lints), b \in 1..Len(TheResult.lints) :
              a < b => LevelRank(TheResult.lints[a].level) <= LevelRank(TheResult.lints[b].level)

----------------------------------------------------------------------------
(* Where parse finds the version (checked under SpecParse) *)

\* digits.digits.digits begins at i
IsTripleAt(text, i) ==
    \E j \in (i + 1)..Len(text), k \in (i + 3)..Len(text) :
        /\ j + 1 < k
        /\ k < Len(text)
        /\ text[j] = "."
        /\ text[k] = "."
        /\ \A n \in (i..(j - 1)) \cup ((j + 1)..(k - 1)) \cup {k + 1} : IsDigit(text[n])

TripleStarts(text) == {i \in 1..Len(text) : IsTripleAt(text, i)}

\* where the first digits.digits.digits of the text begins
FirstTriple(text) == CHOOSE i \in TripleStarts(text) : \A j \in TripleStarts(text) : i <= j

\* the three digit runs of the first digits.digits.digits
FirstRuns(text) ==
    LET i == FirstTriple(text)
        j == DigitRunEnd(text, i)
        k == DigitRunEnd(text, j + 1)
    IN <<Slice(text, i, j), Slice(text, j + 1, k), Slice(text, k + 1, DigitRunEnd(text, k + 1))>>

\* parse gave the Version of the first digits.digits.digits, whatever stands
\* before it
FoundFirst ==
    /\ IsSome(version)
    /\ Now.major = NumericValue(FirstRuns(last.text)[1])
    /\ Now.minor = NumericValue(FirstRuns(last.text)[2])
    /\ Now.patch = NumericValue(FirstRuns(last.text)[3])
    /\ version = Parse(SubSeq(last.text, FirstTriple(last.text), Len(last.text)))

\* C28 as stated: for every string that holds digits.digits.digits somewhere,
\* parse returns Some of the Version of the first such match.
CE_C28 == (Parsed /\ TripleStarts(last.text) # {}) => FoundFirst

\* C28: for every string that holds digits.digits.digits somewhere and whose
\* first such match has three runs that convert to an unsigned integer of the
\* width, parse returns Some of the Version of that match, ignoring the text
\* before and after it.
Thm_C28 ==
    (Parsed /\ TripleStarts(last.text) # {}
            /\ \A n \in 1..3 : Converts(FirstRuns(last.text)[n]))
        => FoundFirst

Wit_C28 ==
    /\ Parsed
    /\ TripleStarts(last.text) # {}
    /\ FirstTriple(last.text) > 1
    /\ IsSome(version)
    /\ IsSome(Now.pre_release)
    /\ FirstTriple(last.text) - 1 + Len(Display(Now)) < Len(last.text)

----------------------------------------------------------------------------
(* The ordering as a relation (checked under SpecCmp) *)

\* C29: cmp returns Equal exactly when the two Versions are equal under the
\* derived equality, which compares all five fields, metadata included.
CE_C29 == Compared => (ordering = Some(Equal) <=> Version_eq(lhs, rhs))

\* the order of the two triples (major, minor, patch), major first
TripleCmp(a, b) ==
    IF a.major < b.major THEN Less
    ELSE IF a.major > b.major THEN Greater
    ELSE IF a.minor < b.minor THEN Less
    ELSE IF a.minor > b.minor THEN Greater
    ELSE NumCmp(a.patch, b.patch)

\* C30: cmp(a, b) is the reverse of cmp(b, a); cmp(a, b) = Less and
\* cmp(b, c) = Less give cmp(a, c) = Less; major decides first, then minor, then
\* patch, and pre_release has a say only when all three are equal.
Thm_C30 ==
    Compared =>
        /\ Cmp(rhs, lhs) = Reverse(Unwrap(ordering))
        /\ ordering = Some(Less) =>
              \A c \in CmpVersions : Cmp(rhs, c) = Less => Cmp(lhs, c) = Less
        /\ ~SameTriple => ordering = Some(TripleCmp(lhs, rhs))

Wit_C30 ==
    /\ Compared
    /\ ordering = Some(Less)
    /\ lhs.major < rhs.major
    /\ lhs.minor > rhs.minor
    /\ IsNone(lhs.pre_release)
    /\ IsSome(rhs.pre_release)
    /\ \E c \in CmpVersions : Cmp(rhs, c) = Less /\ Cmp(lhs, c) = Less

====
